---- MODULE Spec2Model ----
(***************************************************************************)
(* Gemini-Keychecker: the key validation pipeline of src/main.rs           *)
(* (load_keys, build_client, producer thread, buffer_unordered stream,     *)
(* output loop) and the tier writer of src/adapters/output/local.rs.       *)
(*                                                                         *)
(* Strings are sequences of one-character strings, so that lines(),        *)
(* trim() and the key grammar are computed and not assumed.                *)
(***************************************************************************)
EXTENDS Naturals, Integers, Sequences, FiniteSets, TLC

(***************************** bounds ***************************************)
\* most lines in an input file
MaxLines == 2
\* largest configured concurrency explored (0 is accepted by the parser)
MaxConcurrency == 2
\* most lines the tier writer is made to append
MaxTierWrites == 3

(************************* characters and strings ***************************)
NL == "\n"
SP == " "
Whitespace == {SP, "\t"}
\* characters of the key grammar
KeyChars == {"a", "b"}
\* length of a well-formed key
KeyLength == 2

\* the lines the input files of the model are made of
InputLines ==
  { <<"a", "a">>,              \* a well-formed key
    <<SP, "a", "a", "\t">>,    \* the same key with surrounding whitespace
    <<"a", "b">>,              \* another well-formed key
    <<"a", "#">>,              \* illegal character
    <<SP>>,                    \* whitespace only
    <<>> }                     \* empty line

RECURSIVE SeqsUpTo(_, _)
SeqsUpTo(S, n) ==
  IF n = 0 THEN {<<>>}
  ELSE LET shorter == SeqsUpTo(S, n - 1)
       IN  shorter \cup {Append(q, x) : q \in {r \in shorter : Len(r) = n - 1}, x \in S}

RECURSIVE Flatten(_)
\* the text of a file whose lines are ls, each line ended by a newline
Flatten(ls) ==
  IF ls = <<>> THEN <<>> ELSE Head(ls) \o <<NL>> \o Flatten(Tail(ls))

InputTexts == {Flatten(ls) : ls \in SeqsUpTo(InputLines, MaxLines)}

RECURSIVE SplitLines(_, _)
\* str::lines(): cur is the line being read
SplitLines(txt, cur) ==
  IF txt = <<>> THEN (IF cur = <<>> THEN <<>> ELSE <<cur>>)
  ELSE IF Head(txt) = NL THEN <<cur>> \o SplitLines(Tail(txt), <<>>)
  ELSE SplitLines(Tail(txt), Append(cur, Head(txt)))

lines(txt) == SplitLines(txt, <<>>)

RECURSIVE trim_start(_)
trim_start(s) ==
  IF s # <<>> /\ Head(s) \in Whitespace THEN trim_start(Tail(s)) ELSE s

RECURSIVE trim_end(_)
trim_end(s) ==
  IF s # <<>> /\ s[Len(s)] \in Whitespace
  THEN trim_end(SubSeq(s, 1, Len(s) - 1)) ELSE s

\* str::trim()
trim(s) == trim_end(trim_start(s))

Range(q) == {q[i] : i \in 1..Len(q)}

\* ApiKey::from_str: TRUE when the string parses as a key
ApiKey_from_str_ok(s) ==
  /\ Len(s) = KeyLength
  /\ \A i \in 1..Len(s) : s[i] \in KeyChars

\* the HashSet of load_keys: trimmed, non-empty, deduplicated lines
unique_keys_set(txt) ==
  {trim(l) : l \in Range(lines(txt))} \ {<<>>}

\* the orders in which a HashSet may be iterated
IterationOrders(S) ==
  {q \in SeqsUpTo(S, Cardinality(S)) : Len(q) = Cardinality(S) /\ Range(q) = S}

\* load_keys with the Err arm pushing the string as well
load_keys_Unchecked(order) == order

\* the Vec load_keys returns when the set is iterated in this order
load_keys(order) == SelectSeq(order, ApiKey_from_str_ok)

\* the strings load_keys reports with "Skipping invalid key"
skipped_keys(order) == {s \in Range(order) : ~ApiKey_from_str_ok(s)}

(***************************** probe executor *******************************)
Tiers == {"Free", "Paid", "Invalid", "RateLimited"}

\* what one attempt can come back with
Outcomes ==
  {"TransportError", "Http500", "Http401", "Http403", "Http429",
   "Http200Free", "Http200Paid", "Other"}

\* the classifier taking an unrecognized response for a transient failure
Classify_RetryUnknown(o) ==
  CASE o = "TransportError" -> "Retryable"
    [] o = "Http500"        -> "Retryable"
    [] o = "Http429"        -> "RateLimited"
    [] o = "Http401"        -> "Invalid"
    [] o = "Http403"        -> "Invalid"
    [] o = "Http200Free"    -> "Free"
    [] o = "Http200Paid"    -> "Paid"
    [] OTHER                -> "Retryable"

\* Classifier: "Retryable" or the definitive tier
Classify(o) ==
  CASE o = "TransportError" -> "Retryable"
    [] o = "Http500"        -> "Retryable"
    [] o = "Http429"        -> "RateLimited"
    [] o = "Http401"        -> "Invalid"
    [] o = "Http403"        -> "Invalid"
    [] o = "Http200Free"    -> "Free"
    [] o = "Http200Paid"    -> "Paid"
    [] OTHER                -> "Invalid"

\* the cap on attempts per credential
MaxAttempts == 3

\* the policy with the cap compared one attempt too late
next_action_LateCap(attempt_number, c) ==
  IF c # "Retryable" THEN c
  ELSE IF attempt_number <= MaxAttempts THEN "Retry"
  ELSE "Invalid"

\* the policy retrying an Invalid classification as if it were transient
next_action_RetryInvalid(attempt_number, c) ==
  IF c \notin {"Retryable", "Invalid"} THEN c
  ELSE IF attempt_number < MaxAttempts THEN "Retry"
  ELSE "Invalid"

\* Retry Policy: "Retry" or the terminal tier
next_action(attempt_number, c) ==
  IF c # "Retryable" THEN c
  ELSE IF attempt_number < MaxAttempts THEN "Retry"
  ELSE "Invalid"

\* what validate_key_with_retry hands to the stream: Option<ApiKey>
NoneKey == <<"None">>
SomeKey(k) == <<"Some", k>>
validate_result(k, tier) ==
  IF tier \in {"Free", "Paid"} THEN SomeKey(k) ELSE NoneKey

\* the keys a classified result can carry
TierKeys == {k \in {trim(l) : l \in InputLines} : ApiKey_from_str_ok(k)}

ValidatedKeys == [key : TierKeys, tier : Tiers]

\* an endpoint that may answer any attempt with any outcome
AnyEndpoint == [k \in TierKeys |-> <<>>]

\* scripts of a deterministic endpoint: the outcome of attempt n is the n-th
\* element, the last one for every later attempt
Scripts ==
  { <<"Http401">>, <<"Http429">>, <<"Other">>, <<"TransportError">>,
    <<"TransportError", "Http200Free">>,
    <<"Http500", "TransportError", "Http200Paid">> }

\* what the endpoint e may answer to attempt n for key k
Responses(e, k, n) ==
  IF e[k] = <<>> THEN Outcomes
  ELSE {e[k][IF n <= Len(e[k]) THEN n ELSE Len(e[k])]}

NoTier == "NoTier"
NewProbe ==
  [phase |-> "request", attempts |-> 1, transients |-> 0, backoffs |-> 0,
   last |-> "NoOutcome", tier |-> NoTier]

(******************************** state *************************************)
VARIABLES
  pc,            \* position of main
  exit_status,   \* "running", "Ok" or the error main returned
  keys_txt,      \* contents of the input file, <<>> once load_keys has read it
  seen_lines,    \* trimmed line -> number of lines of the file read as it
  concurrency,   \* config.concurrency
  keys,          \* Vec<ApiKey> returned by load_keys
  skipped,       \* strings reported as skipped by load_keys
  tx_next,       \* producer thread: index of the next key to send, 0 before spawn
  tx_dropped,    \* the producer closure has returned and dropped tx
  chan,          \* messages in the unbounded channel
  received,      \* keys the stream has taken out of the channel, in order
  stream_done,   \* the fused input stream has returned None
  in_progress,   \* keys whose probe future is in the buffer_unordered queue
  probe,         \* per dispatched key: the state of validate_key_with_retry
  valid_key,     \* the item the output loop is handling
  output_file,   \* lines of the output file
  write_errors,  \* number of "Failed to write key" reports
  emitted,       \* keys whose result has left buffer_unordered, in that order
  endpoint,      \* per key: the script of a deterministic endpoint, <<>> for any
  tier_files,    \* the four tier destinations of the tier writer
  tier_result,   \* the last call of the tier writer: its argument and result
  layers,        \* what Config.toml, the environment and the command line set
  config         \* the KeyCheckerConfig load_config returned

startVars == <<keys_txt, seen_lines, concurrency, keys, skipped, endpoint>>
chanVars == <<tx_next, tx_dropped, chan, received>>
streamVars == <<stream_done, in_progress, probe>>
sinkVars == <<valid_key, output_file, write_errors, emitted>>
tierVars == <<tier_files, tier_result>>
configVars == <<layers, config>>
vars == <<pc, exit_status, startVars, chanVars, streamVars, sinkVars, tierVars, configVars>>

EmptyFun == [x \in {} |-> NoTier]
NoKey == <<>>
NoCall == [res |-> "none", key |-> NoKey, tier |-> NoTier]
Unset == "unset"

\* the state main starts in, whatever the endpoint
InitProgram ==
  /\ pc = "parse"
  /\ exit_status = "running"
  /\ keys_txt \in InputTexts
  /\ seen_lines = EmptyFun
  /\ concurrency = 0
  /\ keys = <<>>
  /\ skipped = {}
  /\ tx_next = 0
  /\ tx_dropped = FALSE
  /\ chan = <<>>
  /\ received = <<>>
  /\ stream_done = FALSE
  /\ in_progress = {}
  /\ probe = EmptyFun
  /\ valid_key = NoKey
  /\ output_file = <<>>
  /\ write_errors = 0
  /\ emitted = <<>>
  /\ tier_files = [t \in Tiers |-> <<>>]
  /\ tier_result = NoCall
  /\ layers = Unset
  /\ config = Unset

Init ==
  /\ InitProgram
  /\ endpoint = AnyEndpoint

\* the program started against a deterministic mock endpoint
InitMock ==
  /\ InitProgram
  /\ endpoint \in [TierKeys -> Scripts]

(******************************* start-up ***********************************)
Fail(err) ==
  /\ pc' = "exit"
  /\ exit_status' = err

\* main.rs:100  KeyCheckerConfig::parse(): a bad command line ends the process
ParseArgs ==
  /\ pc = "parse"
  /\ \E ok \in BOOLEAN, c \in 0..MaxConcurrency :
       IF ok
       THEN /\ concurrency' = c
            /\ pc' = "load"
            /\ UNCHANGED exit_status
       ELSE /\ Fail("ErrArgs")
            /\ UNCHANGED concurrency
  /\ UNCHANGED <<keys_txt, seen_lines, keys, skipped, endpoint, chanVars, streamVars, sinkVars, tierVars, configVars>>

\* the lines of a text after trim(), counted
TrimmedLineCounts(txt) ==
  LET tl == [i \in 1..Len(lines(txt)) |-> trim(lines(txt)[i])]
  IN  [s \in Range(tl) |-> Cardinality({i \in 1..Len(tl) : tl[i] = s})]

\* main.rs:101  load_keys(&config.input_path)?  The file is read once
\* (main.rs:55); what was read is kept in seen_lines
LoadKeys ==
  /\ pc = "load"
  /\ \E readable \in BOOLEAN :
       IF readable
       THEN \E order \in IterationOrders(unique_keys_set(keys_txt)) :
              /\ keys' = load_keys(order)
              /\ skipped' = skipped_keys(order)
              /\ seen_lines' = TrimmedLineCounts(keys_txt)
              /\ keys_txt' = <<>>
              /\ pc' = "build"
              /\ UNCHANGED exit_status
       ELSE /\ Fail("ErrInput")
            /\ UNCHANGED <<keys_txt, seen_lines, keys, skipped>>
  /\ UNCHANGED <<concurrency, endpoint, chanVars, streamVars, sinkVars, tierVars, configVars>>

\* main.rs:102  build_client(&config)?
BuildClient ==
  /\ pc = "build"
  /\ \E proxy \in {"none", "good", "bad"} :
       IF proxy = "bad"
       THEN Fail("ErrClient")
       ELSE /\ pc' = "spawn"
            /\ UNCHANGED exit_status
  /\ UNCHANGED <<startVars, chanVars, streamVars, sinkVars, tierVars, configVars>>

\* main.rs:105-119  the channel is created and the producer thread spawned
SpawnProducer ==
  /\ pc = "spawn"
  /\ tx_next' = 1
  /\ pc' = "create"
  /\ UNCHANGED <<exit_status, startVars, tx_dropped, chan, received, streamVars,
                 sinkVars, tierVars, configVars>>

\* main.rs:129  fs::File::create(&config.output_path)?
CreateOutput ==
  /\ pc = "create"
  /\ \E ok \in BOOLEAN :
       IF ok
       THEN /\ pc' = "loop"
            /\ UNCHANGED exit_status
       ELSE Fail("ErrOutput")
  /\ UNCHANGED <<startVars, chanVars, streamVars, sinkVars, tierVars, configVars>>

(*************************** producer thread ********************************)
\* the process is alive: the spawned thread ends with it
Alive == exit_status = "running"

\* main.rs:114-118  tx.send(key) for the next key of the Vec
ProducerSend ==
  /\ Alive
  /\ tx_next \in 1..Len(keys)
  /\ chan' = Append(chan, keys[tx_next])
  /\ tx_next' = tx_next + 1
  /\ UNCHANGED <<pc, exit_status, startVars, tx_dropped, received, streamVars,
                 sinkVars, tierVars, configVars>>

\* the closure returning while a clone of tx stays alive in main
ProducerExit_KeepsTx ==
  /\ Alive
  /\ tx_next = Len(keys) + 1
  /\ ~tx_dropped
  /\ tx_dropped' = tx_dropped
  /\ UNCHANGED <<pc, exit_status, startVars, tx_next, chan, received, streamVars,
                 sinkVars, tierVars, configVars>>

\* main.rs:119  the closure returns: tx is dropped
ProducerExit ==
  /\ Alive
  /\ tx_next = Len(keys) + 1
  /\ ~tx_dropped
  /\ tx_dropped' = TRUE
  /\ UNCHANGED <<pc, exit_status, startVars, tx_next, chan, received, streamVars,
                 sinkVars, tierVars, configVars>>

(********************* stream: map + buffer_unordered ***********************)
\* the room test off by one
HasRoom_OffByOne == Cardinality(in_progress) <= concurrency

\* buffer_unordered polls its input stream only while the queue has room
HasRoom == Cardinality(in_progress) < concurrency

\* the input stream taken for ready only when no probe is queued
StreamReady_WhenIdle ==
  in_progress = {} /\ ~stream_done /\ (chan # <<>> \/ tx_dropped)

\* the poll of the input stream would return Ready
StreamReady == HasRoom /\ ~stream_done /\ (chan # <<>> \/ tx_dropped)

\* the dispatch taking a concurrency of 0 for "no limit"
Dispatch_ZeroUnlimited ==
  /\ pc = "loop"
  /\ (concurrency = 0 \/ HasRoom)
  /\ ~stream_done
  /\ chan # <<>>
  /\ LET k == Head(chan) IN
       /\ chan' = Tail(chan)
       /\ received' = Append(received, k)
       /\ in_progress' = in_progress \cup {k}
       /\ probe' = (k :> NewProbe) @@ probe
  /\ UNCHANGED <<pc, exit_status, startVars, tx_next, tx_dropped, stream_done,
                 sinkVars, tierVars, configVars>>

\* main.rs:107-108, 123-124  rx.recv() yields a key; its probe future is queued
Dispatch ==
  /\ pc = "loop"
  /\ HasRoom
  /\ ~stream_done
  /\ chan # <<>>
  /\ LET k == Head(chan) IN
       /\ chan' = Tail(chan)
       /\ received' = Append(received, k)
       /\ in_progress' = in_progress \cup {k}
       /\ probe' = (k :> NewProbe) @@ probe
  /\ UNCHANGED <<pc, exit_status, startVars, tx_next, tx_dropped, stream_done,
                 sinkVars, tierVars, configVars>>

\* the stream ending as soon as it finds the channel empty
StreamEnd_OnEmpty ==
  /\ pc = "loop"
  /\ HasRoom
  /\ ~stream_done
  /\ chan = <<>>
  /\ stream_done' = TRUE
  /\ UNCHANGED <<pc, exit_status, startVars, chanVars, in_progress, probe,
                 sinkVars, tierVars, configVars>>

\* main.rs:107  rx.recv() returns None: channel empty and the sender dropped
StreamEnd ==
  /\ pc = "loop"
  /\ HasRoom
  /\ ~stream_done
  /\ chan = <<>>
  /\ tx_dropped
  /\ stream_done' = TRUE
  /\ UNCHANGED <<pc, exit_status, startVars, chanVars, in_progress, probe,
                 sinkVars, tierVars, configVars>>

\* the probe with the attempt cap counted over all probes in flight
AfterAttempt_SharedBudget(p, o) ==
  LET c == Classify(o)
      a == next_action(p.attempts + Cardinality(in_progress) - 1, c)
  IN  [p EXCEPT !.last = o,
                !.transients = IF c = "Retryable" THEN @ + 1 ELSE @,
                !.phase = IF a = "Retry" THEN "backoff" ELSE "done",
                !.tier = IF a = "Retry" THEN NoTier ELSE a]

\* the record of a probe after an attempt came back with outcome o
AfterAttempt(p, o) ==
  LET c == Classify(o)
      a == next_action(p.attempts, c)
  IN  [p EXCEPT !.last = o,
                !.transients = IF c = "Retryable" THEN @ + 1 ELSE @,
                !.phase = IF a = "Retry" THEN "backoff" ELSE "done",
                !.tier = IF a = "Retry" THEN NoTier ELSE a]

\* main.rs:125  filter_map(|r| async { r }): TRUE when the item goes on
filter_map_keeps(r) == r # NoneKey

\* the stream yielding in dispatch order, as `buffered` does: a completed probe
\* leaves the queue only when no probe dispatched before it is still queued
AttemptReturns_Buffered ==
  /\ pc = "loop"
  /\ ~StreamReady
  /\ \E k \in in_progress :
       /\ probe[k].phase = "request"
       /\ \E o \in Responses(endpoint, k, probe[k].attempts) :
            LET p == AfterAttempt(probe[k], o)
                oldest == \A i, j \in 1..Len(received) :
                            (received[j] = k /\ i < j) => received[i] \notin in_progress
            IN
              /\ probe' = [probe EXCEPT ![k] = p]
              /\ IF p.phase = "done" /\ oldest
                 THEN /\ in_progress' = in_progress \ {k}
                      /\ emitted' = Append(emitted, k)
                      /\ IF filter_map_keeps(validate_result(k, p.tier))
                         THEN /\ valid_key' = k
                              /\ pc' = "write"
                         ELSE UNCHANGED <<valid_key, pc>>
                 ELSE UNCHANGED <<in_progress, emitted, valid_key, pc>>
  /\ UNCHANGED <<exit_status, startVars, chanVars, stream_done, output_file,
                 write_errors, tierVars, configVars>>

\* an attempt of the probe of k comes back; the probe retries or completes,
\* and a completed probe leaves the queue with its result (main.rs:123-125, 132)
AttemptReturns ==
  /\ pc = "loop"
  /\ ~StreamReady
  /\ \E k \in in_progress :
       /\ probe[k].phase = "request"
       /\ \E o \in Responses(endpoint, k, probe[k].attempts) :
            LET p == AfterAttempt(probe[k], o) IN
              /\ probe' = [probe EXCEPT ![k] = p]
              /\ IF p.phase = "done"
                 THEN /\ in_progress' = in_progress \ {k}
                      /\ emitted' = Append(emitted, k)
                      /\ IF filter_map_keeps(validate_result(k, p.tier))
                         THEN /\ valid_key' = k
                              /\ pc' = "write"
                         ELSE UNCHANGED <<valid_key, pc>>
                 ELSE UNCHANGED <<in_progress, emitted, valid_key, pc>>
  /\ UNCHANGED <<exit_status, startVars, chanVars, stream_done, output_file,
                 write_errors, tierVars, configVars>>

\* the backoff delay of the probe of k elapses and the next attempt is issued
BackoffElapsed ==
  /\ pc = "loop"
  /\ ~StreamReady
  /\ \E k \in in_progress :
       /\ probe[k].phase = "backoff"
       /\ probe' = [probe EXCEPT ![k].phase = "request",
                                 ![k].attempts = @ + 1,
                                 ![k].backoffs = @ + 1]
  /\ UNCHANGED <<pc, exit_status, startVars, chanVars, stream_done, in_progress,
                 sinkVars, tierVars, configVars>>

(****************************** output loop *********************************)
\* the write with its error propagated by `?`
WriteKey_Fatal ==
  /\ pc = "write"
  /\ \E res \in {"ok", "err", "torn"} :
       /\ output_file' =
            CASE res = "ok"   -> Append(output_file, [key |-> valid_key, whole |-> TRUE])
              [] res = "torn" -> Append(output_file, [key |-> valid_key, whole |-> FALSE])
              [] OTHER        -> output_file
       /\ write_errors' = IF res = "ok" THEN write_errors ELSE write_errors + 1
       /\ IF res = "ok"
          THEN pc' = "loop" /\ UNCHANGED exit_status
          ELSE pc' = "exit" /\ exit_status' = "ErrWrite"
  /\ valid_key' = NoKey
  /\ UNCHANGED emitted
  /\ UNCHANGED <<startVars, chanVars, streamVars, tierVars, configVars>>

\* the write with a `break` after the report
WriteKey_Break ==
  /\ pc = "write"
  /\ \E res \in {"ok", "err", "torn"} :
       /\ output_file' =
            CASE res = "ok"   -> Append(output_file, [key |-> valid_key, whole |-> TRUE])
              [] res = "torn" -> Append(output_file, [key |-> valid_key, whole |-> FALSE])
              [] OTHER        -> output_file
       /\ write_errors' = IF res = "ok" THEN write_errors ELSE write_errors + 1
       /\ IF res = "ok"
          THEN pc' = "loop" /\ UNCHANGED exit_status
          ELSE pc' = "exit" /\ exit_status' = "Ok"
  /\ valid_key' = NoKey
  /\ UNCHANGED emitted
  /\ UNCHANGED <<startVars, chanVars, streamVars, tierVars, configVars>>

\* main.rs:133-136  writeln!(output_file, ...): a failure is reported, the loop goes on
WriteKey ==
  /\ pc = "write"
  /\ \E res \in {"ok", "err", "torn"} :
       /\ output_file' =
            CASE res = "ok"   -> Append(output_file, [key |-> valid_key, whole |-> TRUE])
              [] res = "torn" -> Append(output_file, [key |-> valid_key, whole |-> FALSE])
              [] OTHER        -> output_file
       /\ write_errors' = IF res = "ok" THEN write_errors ELSE write_errors + 1
  /\ valid_key' = NoKey
  /\ UNCHANGED emitted
  /\ pc' = "loop"
  /\ UNCHANGED <<exit_status, startVars, chanVars, streamVars, tierVars, configVars>>

\* the loop exiting as soon as the input stream has ended
Finish_Early ==
  /\ pc = "loop"
  /\ ~StreamReady
  /\ stream_done
  /\ pc' = "exit"
  /\ exit_status' = "Ok"
  /\ UNCHANGED <<startVars, chanVars, streamVars, sinkVars, tierVars, configVars>>

\* main.rs:132, 139-140  the stream ends: the loop exits and main returns Ok(())
Finish ==
  /\ pc = "loop"
  /\ ~StreamReady
  /\ stream_done
  /\ in_progress = {}
  /\ pc' = "exit"
  /\ exit_status' = "Ok"
  /\ UNCHANGED <<startVars, chanVars, streamVars, sinkVars, tierVars, configVars>>

Next ==
  \/ ParseArgs
  \/ LoadKeys
  \/ BuildClient
  \/ SpawnProducer
  \/ CreateOutput
  \/ ProducerSend
  \/ ProducerExit
  \/ Dispatch
  \/ StreamEnd
  \/ AttemptReturns
  \/ BackoffElapsed
  \/ WriteKey
  \/ Finish

Spec == Init /\ [][Next]_vars

\* the producer is an OS thread, the stream is polled by the running main task,
\* every request ends within the client timeout and every backoff elapses
Fairness ==
  /\ WF_vars(ProducerSend)
  /\ WF_vars(ProducerExit)
  /\ WF_vars(Dispatch)
  /\ WF_vars(StreamEnd)
  /\ WF_vars(AttemptReturns)
  /\ WF_vars(BackoffElapsed)
  /\ WF_vars(WriteKey)
  /\ WF_vars(Finish)

FairSpec == Spec /\ Fairness

SpecMock == InitMock /\ [][Next]_vars

(******************** tier writer (adapters/output/local.rs) ****************)
\* lines held by the four destinations together
TierLineCount ==
  Len(lines(tier_files["Free"])) + Len(lines(tier_files["Paid"]))
    + Len(lines(tier_files["Invalid"])) + Len(lines(tier_files["RateLimited"]))

\* the writer with the arms of Invalid and RateLimited exchanged
write_validated_key_to_tier_files_Swapped(validated_key, ok) ==
  LET file == CASE validated_key.tier = "Invalid" -> "RateLimited"
                [] validated_key.tier = "RateLimited" -> "Invalid"
                [] OTHER -> validated_key.tier
  IN  /\ pc = "tier"
      /\ TierLineCount < MaxTierWrites
      /\ IF ok
         THEN /\ tier_files' = [tier_files EXCEPT ![file] =
                                  @ \o validated_key.key \o <<NL>>]
              /\ tier_result' = [res |-> "Ok", key |-> validated_key.key,
                                  tier |-> validated_key.tier]
         ELSE /\ tier_files' = tier_files
              /\ tier_result' = [res |-> "Err", key |-> validated_key.key,
                                  tier |-> validated_key.tier]
      /\ UNCHANGED <<pc, exit_status, startVars, chanVars, streamVars, sinkVars,
                     configVars>>

\* local.rs:9-25  the line is appended to the destination of the tier; when the
\* buffered writer fails the line is not taken and the error is returned
write_validated_key_to_tier_files(validated_key, ok) ==
  /\ pc = "tier"
  /\ TierLineCount < MaxTierWrites
  /\ IF ok
     THEN /\ tier_files' = [tier_files EXCEPT ![validated_key.tier] =
                              @ \o validated_key.key \o <<NL>>]
          /\ tier_result' = [res |-> "Ok", key |-> validated_key.key,
                              tier |-> validated_key.tier]
     ELSE /\ tier_files' = tier_files
          /\ tier_result' = [res |-> "Err", key |-> validated_key.key,
                              tier |-> validated_key.tier]
  /\ UNCHANGED <<pc, exit_status, startVars, chanVars, streamVars, sinkVars,
                 configVars>>

InitTier ==
  /\ pc = "tier"
  /\ exit_status = "running"
  /\ keys_txt = <<>>
  /\ seen_lines = EmptyFun
  /\ concurrency = 0
  /\ keys = <<>>
  /\ skipped = {}
  /\ tx_next = 0
  /\ tx_dropped = FALSE
  /\ chan = <<>>
  /\ received = <<>>
  /\ stream_done = FALSE
  /\ in_progress = {}
  /\ probe = EmptyFun
  /\ valid_key = NoKey
  /\ output_file = <<>>
  /\ write_errors = 0
  /\ emitted = <<>>
  /\ endpoint = AnyEndpoint
  /\ tier_files = [t \in Tiers |-> <<>>]
  /\ tier_result = NoCall
  /\ layers = Unset
  /\ config = Unset

NextTier ==
  \E validated_key \in ValidatedKeys, ok \in BOOLEAN :
    write_validated_key_to_tier_files(validated_key, ok)

SpecTier == InitTier /\ [][NextTier]_vars

(********************* configuration (config/basic_config.rs) ***************)
\* fields of KeyCheckerConfig followed here, values in their written form
ConfigFields == {"timeout_sec", "concurrency", "enable_multiplexing"}

\* basic_config.rs:16-45  the fields a command-line argument exists for
CliFields == {"timeout_sec", "concurrency"}

\* basic_config.rs:144-153
DEFAULT_CONFIG ==
  [timeout_sec |-> "15", concurrency |-> "50", enable_multiplexing |-> "true"]

\* basic_config.rs:47-80  the values extract() accepts for a field
ValidValues(f) ==
  IF f = "enable_multiplexing" THEN {"true", "false"}
  ELSE {"0", "1", "2", "3", "15", "50"}

\* the maps that give some of the fields of F a value of V
PartialMaps(F, V) == UNION {[S -> V] : S \in SUBSET F}

\* the maps of L whose values for the fields of F are taken from V
Restrict(L, F, V) == {m \in L : \A f \in DOMAIN m \cap F : m[f] \in V}

\* contents Config.toml can have: the file is valid TOML, a value need not be
\* of the type of its field
FileLayers ==
  Restrict(Restrict(PartialMaps(ConfigFields, {"1", "x", "false"}),
                    {"enable_multiplexing"}, {"false"}),
           CliFields, {"1", "x"})

\* the KEYCHECKER_ variables of the environment
EnvLayers ==
  Restrict(Restrict(PartialMaps(ConfigFields, {"2", "x", "true"}),
                    {"enable_multiplexing"}, {"true", "x"}),
           CliFields, {"2", "x"})

\* basic_config.rs:16-45  Cli::parse() serialized: an argument that is not
\* given (None) is skipped, and clap has rejected a value of the wrong type
CliLayers == PartialMaps(CliFields, {"3"})

\* Figment::join: a value already present is kept
Merge_Join(a, b) ==
  [f \in DOMAIN a \cup DOMAIN b |-> IF f \in DOMAIN a THEN a[f] ELSE b[f]]

\* Figment::merge: the provider merged later replaces a value already present
Merge(a, b) ==
  [f \in DOMAIN a \cup DOMAIN b |-> IF f \in DOMAIN b THEN b[f] ELSE a[f]]

NoConfig == [res |-> "none", value |-> EmptyFun]

\* basic_config.rs:88-108  Config.toml is created from the defaults when it
\* does not exist; then defaults, file, environment and command line are
\* merged in this order and the result is extracted
load_config(write_ok) ==
  /\ pc = "config"
  /\ pc' = "configured"
  /\ IF ~layers.file_exists /\ ~write_ok
     THEN /\ config' = [res |-> "Err", value |-> EmptyFun]
          /\ layers' = layers
     ELSE LET file == IF layers.file_exists THEN layers.file ELSE DEFAULT_CONFIG
              figment == Merge(Merge(Merge(DEFAULT_CONFIG, file), layers.env),
                               layers.cli)
          IN  /\ layers' = [layers EXCEPT !.file_exists = TRUE, !.file = file]
              /\ config' =
                   IF \A f \in ConfigFields : figment[f] \in ValidValues(f)
                   THEN [res |-> "Ok", value |-> figment]
                   ELSE [res |-> "Err", value |-> EmptyFun]
  /\ UNCHANGED <<exit_status, startVars, chanVars, streamVars, sinkVars, tierVars>>

InitConfig ==
  /\ pc = "config"
  /\ exit_status = "running"
  /\ keys_txt = <<>>
  /\ seen_lines = EmptyFun
  /\ concurrency = 0
  /\ keys = <<>>
  /\ skipped = {}
  /\ tx_next = 0
  /\ tx_dropped = FALSE
  /\ chan = <<>>
  /\ received = <<>>
  /\ stream_done = FALSE
  /\ in_progress = {}
  /\ probe = EmptyFun
  /\ valid_key = NoKey
  /\ output_file = <<>>
  /\ write_errors = 0
  /\ emitted = <<>>
  /\ endpoint = AnyEndpoint
  /\ tier_files = [t \in Tiers |-> <<>>]
  /\ tier_result = NoCall
  /\ config = NoConfig
  /\ \E file_exists \in BOOLEAN, file \in FileLayers, env \in EnvLayers,
        cli \in CliLayers :
       /\ ~file_exists => file = EmptyFun
       /\ layers = [file_exists |-> file_exists, file |-> file, env |-> env,
                    cli |-> cli]

NextConfig == \E write_ok \in BOOLEAN : load_config(write_ok)

SpecConfig == InitConfig /\ [][NextConfig]_vars

(**************************** derived notions *******************************)
RECURSIVE CountSeq(_, _)
\* number of positions of q that hold x
CountSeq(q, x) ==
  IF q = <<>> THEN 0
  ELSE (IF Head(q) = x THEN 1 ELSE 0) + CountSeq(Tail(q), x)

\* the complete lines of the output file, as keys
WholeLines == SelectSeq(output_file, LAMBDA e : e.whole)
WrittenKeys == [i \in 1..Len(WholeLines) |-> WholeLines[i].key]

\* entries for key k over the output file and the four tier destinations
EntriesOf(k) ==
  CountSeq(WrittenKeys, k) + CountSeq(lines(tier_files["Free"]), k)
    + CountSeq(lines(tier_files["Paid"]), k)
    + CountSeq(lines(tier_files["Invalid"]), k)
    + CountSeq(lines(tier_files["RateLimited"]), k)

TotalEntries == Len(WrittenKeys) + TierLineCount

\* probes started and not yet completed (waiting on a response or a backoff)
InFlight == {k \in DOMAIN probe : probe[k].phase \in {"request", "backoff"}}

Completed == {k \in DOMAIN probe : probe[k].phase = "done"}

\* completed probes whose result passes filter_map and reaches the output loop
Kept == {k \in Completed : filter_map_keeps(validate_result(k, probe[k].tier))}

Definitive(o) == o \in Outcomes /\ Classify(o) # "Retryable"

RanToEnd == pc = "exit" /\ exit_status = "Ok"


(******************************** claims ************************************)
\* C1 (as stated): once the run has finished, every loaded credential has
\* exactly one entry over all destinations and there are exactly N entries.
C1_Completeness ==
  RanToEnd =>
    /\ \A k \in Range(keys) : EntriesOf(k) = 1
    /\ TotalEntries = Len(keys)

\* C2: with a configured limit c >= 1 the number of probes in flight never
\* exceeds c.
C2_ConcurrencyBound ==
  concurrency >= 1 =>
    /\ Cardinality(InFlight) <= concurrency
    /\ InFlight = in_progress

\* C2 witness: the single slot is taken by a probe in backoff while a key waits
C2_Witness ==
  /\ concurrency = 1
  /\ Cardinality(InFlight) = 1
  /\ chan # <<>>
  /\ \E k \in InFlight : probe[k].phase = "backoff"

\* C3 (as stated): a well-formed credential that is on several lines is
\* loaded once, probed once and has exactly one output entry in total.
C3_Dedup ==
  \A k \in DOMAIN seen_lines :
    (ApiKey_from_str_ok(k) /\ seen_lines[k] >= 2) =>
      /\ CountSeq(keys, k) = 1
      /\ CountSeq(received, k) <= 1
      /\ RanToEnd => (CountSeq(received, k) = 1 /\ EntriesOf(k) = 1)

\* C4: a credential whose every attempt was transient completes as Invalid
\* after exactly MaxAttempts attempts with a backoff between consecutive
\* attempts, and it never completes earlier or without a tier.
C4_RetryExhaustion ==
  \A k \in DOMAIN probe :
    /\ probe[k].attempts <= MaxAttempts
    /\ probe[k].backoffs = probe[k].attempts - 1
    /\ (probe[k].phase = "done" /\ probe[k].transients = probe[k].attempts) =>
         /\ probe[k].attempts = MaxAttempts
         /\ probe[k].tier = "Invalid"

\* C4 witness: a probe completed after MaxAttempts transient attempts
C4_Witness ==
  \E k \in Completed :
    /\ probe[k].transients = MaxAttempts
    /\ probe[k].backoffs = MaxAttempts - 1
    /\ probe[k].tier = "Invalid"

\* C5: an attempt with a definitive outcome ends the probe with that tier on
\* that attempt; no attempt follows it, so a 401 on the first attempt means
\* exactly one attempt.
C5_DefinitiveShortCircuit ==
  \A k \in DOMAIN probe :
    Definitive(probe[k].last) =>
      /\ probe[k].phase = "done"
      /\ k \notin in_progress
      /\ probe[k].tier = Classify(probe[k].last)
      /\ probe[k].attempts = probe[k].transients + 1
      /\ (probe[k].last = "Http401" /\ probe[k].transients = 0) =>
           (probe[k].attempts = 1 /\ probe[k].tier = "Invalid")

\* C5 witness: a probe ended by a 401 on its first attempt, the run finished
C5_Witness ==
  /\ RanToEnd
  /\ \E k \in Completed :
       probe[k].last = "Http401" /\ probe[k].attempts = 1 /\ probe[k].backoffs = 0

\* C6 (as stated): a credential answered with 429 is RateLimited after one
\* attempt and appears in the RateLimited destination.
C6_RateLimitTerminal ==
  \A k \in DOMAIN probe :
    (probe[k].last = "Http429" /\ probe[k].transients = 0) =>
      /\ probe[k].tier = "RateLimited"
      /\ probe[k].attempts = 1
      /\ RanToEnd => CountSeq(lines(tier_files["RateLimited"]), k) = 1

\* C7: probe failures never end the run with an error; a run that ends has
\* completed the probe of every loaded credential, and a credential none of
\* whose attempts succeeded is Invalid or RateLimited.
C7_NoProbeErrorAborts ==
  /\ ~Alive /\ exit_status # "Ok" => probe = EmptyFun
  /\ RanToEnd => Range(keys) = Completed
  /\ \A k \in Completed :
       /\ probe[k].tier \in Tiers
       /\ validate_result(k, probe[k].tier) \in {NoneKey, SomeKey(k)}
       /\ probe[k].last \notin {"Http200Free", "Http200Paid"} =>
            probe[k].tier \in {"Invalid", "RateLimited"}

\* C7 witness: a finished run in which one credential met only transport
\* errors and another one a malformed response
C7_Witness ==
  /\ RanToEnd
  /\ \E k1, k2 \in Completed :
       /\ k1 # k2
       /\ probe[k1].last = "TransportError"
       /\ probe[k2].last = "Other"

\* C8 (as stated): once the command line is parsed, the run fails only when
\* the input cannot be read; a client that cannot be built or an output file
\* that cannot be opened still ends with success.
C8_OnlyInputFatal ==
  exit_status \notin {"running", "Ok", "ErrArgs"} => exit_status = "ErrInput"

\* C8 (amended): the run fails only when the command line cannot be parsed,
\* the input cannot be read, the client cannot be built or the output file
\* cannot be created, each before any probe or write; failed writes and runs
\* without a valid key end with success.
C8_FatalErrors ==
  /\ exit_status \notin {"running", "Ok"} =>
       /\ exit_status \in {"ErrArgs", "ErrInput", "ErrClient", "ErrOutput"}
       /\ probe = EmptyFun
       /\ write_errors = 0
       /\ output_file = <<>>
  /\ (pc = "exit" /\ (stream_done \/ write_errors > 0)) => exit_status = "Ok"

\* C8 witness: a run that ended with success after a failed write and with
\* no line in the output file
C8_Witness ==
  /\ RanToEnd
  /\ write_errors >= 1
  /\ WrittenKeys = <<>>
  /\ \E k \in Completed : probe[k].tier = "Invalid"

\* C9: a failed write is reported and does not end the loop: every result
\* that reaches the loop is written or reported, the run ends only after
\* every probe completed, and what is written agrees with the classification.
C9_WriteFailureTolerance ==
  /\ write_errors > 0 => exit_status \in {"running", "Ok"}
  /\ Len(WrittenKeys) + write_errors + (IF pc = "write" THEN 1 ELSE 0)
       = Cardinality(Kept)
  /\ \A k \in Range(WrittenKeys) : k \in Kept /\ CountSeq(WrittenKeys, k) = 1
  /\ RanToEnd => Range(keys) = Completed

\* C9 witness: a write failed and the next result was still written
C9_Witness ==
  /\ RanToEnd
  /\ Len(output_file) = 2
  /\ ~output_file[1].whole
  /\ output_file[2].whole
  /\ write_errors = 1

\* C10: a line that fails parsing is reported and never loaded, sent, probed
\* or written; empty and whitespace-only lines are skipped; the well-formed
\* lines of the same file are loaded.
C10_FormatErrors ==
  /\ <<>> \notin skipped
  /\ \A s \in DOMAIN seen_lines :
       IF ApiKey_from_str_ok(s)
       THEN s \in Range(keys) /\ s \notin skipped
       ELSE /\ s # <<>> => s \in skipped
            /\ s \notin Range(keys)
            /\ s \notin Range(chan)
            /\ s \notin Range(received)
            /\ s \notin DOMAIN probe
            /\ EntriesOf(s) = 0
            /\ s \notin {output_file[j].key : j \in 1..Len(output_file)}
  /\ \A s \in Range(keys) \cup Range(chan) \cup DOMAIN probe :
       s \in DOMAIN seen_lines /\ ApiKey_from_str_ok(s)

\* C10 witness: a file with a malformed line and a key; the malformed line
\* was reported, the key was loaded, probed and written
C10_Witness ==
  /\ RanToEnd
  /\ \E s \in DOMAIN seen_lines : s \in skipped
  /\ WrittenKeys # <<>>

\* C11: with concurrency >= 1 and fair scheduling, a run that has entered the
\* output loop ends: the loop exits and main returns Ok; the stream never
\* receives more keys than were loaded.
C11_Termination ==
  /\ [](Len(received) <= Len(keys) /\ Len(emitted) <= Len(keys))
  /\ (pc = "loop" /\ concurrency >= 1) ~> RanToEnd

\* C11 witness: a run over two keys with concurrency 1 and a retried probe ended
C11_Witness ==
  /\ RanToEnd
  /\ concurrency = 1
  /\ Len(emitted) = 2
  /\ \E k \in Completed : probe[k].backoffs = MaxAttempts - 1

RECURSIVE AloneTier(_, _, _)
\* the tier the probe of k returns when it runs alone against endpoint e,
\* from attempt n on
AloneTier(e, k, n) ==
  LET o == CHOOSE x \in Responses(e, k, n) : TRUE
      a == next_action(n, Classify(o))
  IN  IF a = "Retry" THEN AloneTier(e, k, n + 1) ELSE a

\* C12: against a deterministic endpoint the tier of a credential is the one
\* its probe returns when run alone, in every run: it does not depend on the
\* concurrency, the order of loading and completion or the interleaving, so
\* two runs over the same credentials agree on every tier.
C12_IdempotentClassification ==
  \A k \in Completed : probe[k].tier = AloneTier(endpoint, k, 1)

\* C12 witness: concurrency 2, both probes ran together, one of them through
\* two retries, and the results left in the reverse of the dispatch order
C12_Witness ==
  /\ RanToEnd
  /\ concurrency = 2
  /\ Len(emitted) = 2
  /\ emitted # received
  /\ \E k \in Completed : probe[k].tier = "Paid" /\ probe[k].attempts = MaxAttempts

\* C13: a call of the tier writer that returns Ok for a result of tier T has
\* appended the key and a newline to the destination of T, and every other
\* destination is as it was before the call; a call that returns Err changed
\* no destination.
C13_TierRouting ==
  [][\A t \in Tiers :
       tier_files'[t] =
         IF tier_result'.res = "Ok" /\ t = tier_result'.tier
         THEN tier_files[t] \o tier_result'.key \o <<NL>>
         ELSE tier_files[t]]_vars

\* C13 witness: a line was written for RateLimited after lines had been
\* written to two other destinations
C13_Witness ==
  /\ tier_result.res = "Ok"
  /\ tier_result.tier = "RateLimited"
  /\ lines(tier_files["RateLimited"]) = <<tier_result.key>>
  /\ Cardinality({t \in Tiers : tier_files[t] # <<>>}) = 3

\* the outcomes that are a transport-level failure or an HTTP 5xx
TransientOutcomes == {"TransportError", "Http500"}

\* C14: every attempt outcome is classified, and it is counted as retryable
\* exactly when it is a transport failure or an HTTP 5xx: only such an outcome
\* sends a probe into backoff; 401, 403 and an unrecognized response end the
\* probe as Invalid and 429 ends it as RateLimited.
C14_ClassifierMapping ==
  \A k \in DOMAIN probe :
    LET p == probe[k] IN
    p.phase \in {"backoff", "done"} =>
      /\ p.last \in Outcomes
      /\ p.transients =
           IF p.last \in TransientOutcomes THEN p.attempts ELSE p.attempts - 1
      /\ p.phase = "backoff" => p.last \in TransientOutcomes
      /\ p.last \in {"Http401", "Http403", "Other"} =>
           p.phase = "done" /\ p.tier = "Invalid"
      /\ p.last = "Http429" => p.phase = "done" /\ p.tier = "RateLimited"

\* C14 witness: one probe ended as Invalid on an unrecognized response to its
\* second attempt while another is in backoff after an HTTP 5xx
C14_Witness ==
  \E k1, k2 \in DOMAIN probe :
    /\ probe[k1].last = "Other"
    /\ probe[k1].attempts = 2
    /\ probe[k1].tier = "Invalid"
    /\ probe[k2].phase = "backoff"
    /\ probe[k2].last = "Http500"

\* C15: a probe that has completed is no longer in the queue of the stream:
\* its result left in the step that completed it, whatever probes dispatched
\* before it are still in flight, and when the result is a key the loop holds
\* that key for writing at once.
C15_CompletionOrderEmission ==
  /\ \A k \in DOMAIN probe :
       probe[k].phase = "done" => (k \notin in_progress /\ CountSeq(emitted, k) = 1)
  /\ \A k \in Range(emitted) : probe[k].phase = "done"
  /\ pc = "write" => (valid_key = emitted[Len(emitted)] /\ valid_key \in Kept)
  /\ pc # "write" => valid_key = NoKey

\* C15 witness: the loop holds the key dispatched second while the probe of
\* the key dispatched first is still in flight
C15_Witness ==
  /\ pc = "write"
  /\ Len(received) = 2
  /\ valid_key = received[2]
  /\ received[1] \in in_progress
  /\ emitted = <<received[2]>>

\* a slot of the queue is free and a key is waiting in the channel
SlotFreeAndKeyWaiting ==
  /\ pc = "loop"
  /\ Cardinality(InFlight) < concurrency
  /\ ~stream_done
  /\ chan # <<>>

InForce(f) ==
  IF f \in DOMAIN layers.cli THEN layers.cli[f]
  ELSE IF f \in DOMAIN layers.env THEN layers.env[f]
  ELSE IF f \in DOMAIN layers.file THEN layers.file[f]
  ELSE DEFAULT_CONFIG[f]

\* C17: when load_config returns a configuration, every field has the value
\* of the highest-priority layer that sets it, in the order defaults <
\* Config.toml < KEYCHECKER_ environment < command line; a command-line
\* argument that is not given leaves the value of the lower layers in force.
C17_ConfigurationPrecedence ==
  config.res = "Ok" =>
    /\ DOMAIN config.value = ConfigFields
    /\ \A f \in ConfigFields : config.value[f] = InForce(f)

\* C17 witness: the command line gives the concurrency only; the environment
\* gives concurrency and timeout, the file all three fields
C17_Witness ==
  /\ config.res = "Ok"
  /\ DOMAIN layers.cli = {"concurrency"}
  /\ DOMAIN layers.env = CliFields
  /\ DOMAIN layers.file = ConfigFields
  /\ config.value = [timeout_sec |-> "2", concurrency |-> "3",
                     enable_multiplexing |-> "false"]

\* the keys the producer thread has sent so far, in the order sent
SentKeys == SubSeq(keys, 1, tx_next - 1)

\* C18: at every moment the keys sent are the keys the stream has received
\* followed by the keys still in the channel, each once and in the order
\* sent; and the stream has seen the end of its input only when the producer
\* has sent every key and dropped the sender and the channel is empty, so
\* that it has received every key.
C18_HandoffLosesNothing ==
  /\ tx_next >= 1 => SentKeys = received \o chan
  /\ tx_next = 0 => (received = <<>> /\ chan = <<>>)
  /\ \A k \in Range(keys) : CountSeq(received, k) + CountSeq(chan, k) <= 1
  /\ stream_done =>
       /\ tx_dropped
       /\ tx_next = Len(keys) + 1
       /\ chan = <<>>
       /\ received = keys

\* C18 witness: the stream ended after it received both keys of the producer
C18_Witness ==
  /\ stream_done
  /\ tx_dropped
  /\ Len(keys) = 2
  /\ received = keys

\* C19: a run whose arguments were accepted with concurrency 0 goes as far as
\* the output loop like any other, and there it stays: no key is taken from
\* the channel, no probe is started, no result leaves the stream, nothing is
\* written, the stream does not see its end and main does not return Ok.
C19_ZeroConcurrencyHangs ==
  (pc \notin {"parse", "tier", "config", "configured"} /\ concurrency = 0) =>
    /\ received = <<>>
    /\ probe = EmptyFun
    /\ in_progress = {}
    /\ emitted = <<>>
    /\ output_file = <<>>
    /\ ~stream_done
    /\ pc # "write"
    /\ exit_status # "Ok"
    /\ tx_next >= 1 => chan = SentKeys

\* C19 witness: concurrency 0 was accepted, main is in the output loop, the
\* producer has sent both keys and dropped the sender
C19_Witness ==
  /\ pc = "loop"
  /\ concurrency = 0
  /\ Len(keys) = 2
  /\ chan = keys
  /\ tx_dropped

====
